---- MODULE Spec2Model ----
(***************************************************************************)
(* Model of the poker-league browser client (frontend/src/App.js):         *)
(* AuthProvider (session holder), AuthForm, Dashboard (league browser),    *)
(* CreateLeagueModal and GameInterface (game room), together with the      *)
(* fetches they have in flight.  The backend is an external collaborator:  *)
(* every pending fetch can resolve with any response the API allows, or    *)
(* fail in transport.                                                      *)
(***************************************************************************)
EXTENDS Integers, Sequences, FiniteSets, Bags, TLC

\* ------------------------------------------------------------------ bounds
MaxUser == 2
MaxLeague == 1
MaxInFlight == 2
MaxAppInFlight == 1
MaxTable == 2
MaxSeatGiven == 2
MaxAssignments == 2
MaxPlayers == 3
MaxEliminations == 2
MaxMembers == 5
MaxSyncUser == 1

\* ------------------------------------------------------- program constants
NumSeats == 9

\* -------------------------------------------------------------- data model
Users == 1..MaxUser
NoUser == 0
Tokens == Users
NoToken == 0
Leagues == 1..MaxLeague
NoLeague == [null |-> TRUE]
NullStatus == [null |-> TRUE]
NoAlert == ""
NoError == ""
Detail == "detail"
LoginFailed == "Login failed"
RegistrationFailed == "Registration failed"

Min(S) == CHOOSE x \in S : \A y \in S : x <= y

RECURSIVE SetToSeq(_)
SetToSeq(S) == IF S = {} THEN << >>
               ELSE LET x == Min(S) IN << x >> \o SetToSeq(S \ {x})

Range(s) == { s[i] : i \in DOMAIN s }

\* Array.prototype.map
Map(s, F(_)) == [ i \in DOMAIN s |-> F(s[i]) ]

\* A league as the server lists it; league l is administered by user AdminOf(l).
AdminOf(l) == ((l - 1) % MaxUser) + 1
League(l) == [id |-> l, admin_id |-> AdminOf(l)]
LeagueList(S) == Map(SetToSeq(S), League)

\* The i-th checked-in player is seated at table 1 + (i-1) \div 9, seat 1 + (i-1) % 9.
SeatFor(us, i) == [user_id |-> us[i],
                   table_number |-> 1 + ((i - 1) \div NumSeats),
                   seat_number |-> 1 + ((i - 1) % NumSeats)]
Assign(S) == LET us == SetToSeq(S) IN [ i \in DOMAIN us |-> SeatFor(us, i) ]
Snapshot(S, started) == [checked_in_players |-> Cardinality(S),
                         seat_assignments |-> Assign(S),
                         game_started |-> started]
Snapshots == { Snapshot(S, b) : S \in SUBSET Users, b \in BOOLEAN }

\* ------------------------------------------------------------------ state
VARIABLES
  user, token, storedToken, authLoading,          \* AuthProvider, localStorage
  formError, formLoading,                         \* AuthForm
  myLeagues, allLeagues, dashLoading,             \* Dashboard
  selectedLeague, showCreateForm, createLoading,  \* Dashboard, CreateLeagueModal
  gameStatus, loading, checkedInUsers,            \* GameInterface
  intervalOn, pollToken,                          \* its interval and closure
  alertShown,                                     \* window.alert
  net,                                            \* fetches in flight
  capacity,                                       \* bound on them, fixed by Init
  last,                                           \* the handler that ran last
  assignments, layout,                            \* layout derivation
  pickerSnap, pickerOffered, pickerSent,          \* elimination position picker
  draft,                                          \* results editor
  server                                          \* the backend's game state

sessionVars == << user, token, storedToken, authLoading >>
formVars == << formError, formLoading >>
dashVars == << myLeagues, allLeagues, dashLoading, selectedLeague,
               showCreateForm, createLoading >>
gameVars == << gameStatus, loading, checkedInUsers, intervalOn, pollToken >>
appVars == << sessionVars, formVars, dashVars, gameVars, alertShown, net,
             capacity, last, server >>
layoutVars == << assignments, layout >>
pickerVars == << pickerSnap, pickerOffered, pickerSent >>
vars == << appVars, layoutVars, pickerVars, draft >>

\* ---------------------------------------------------------- fetches in flight
\* A pending fetch: the request as sent (kind, bearer token, league, action,
\* finish_position; 0 / "" where the request has none), and whether the
\* component instance whose setState calls its continuation makes is still
\* mounted (live), and for the modal's request whether the Dashboard instance
\* that opened the modal is (dlive).
FormKinds == {"login", "register"}
DashKinds == {"leagues", "join"}
GameKinds == {"status", "checkin", "start", "reset"}
MutatingKinds == {"checkin", "start", "reset"}
UserKinds == FormKinds \cup {"join", "create"} \cup MutatingKinds

\* answer is the response on its way back where the backend is followed
Unanswered == [none |-> TRUE]
Request(k, tk, l, a, alive) ==
  [kind |-> k, token |-> tk, league |-> l, action |-> a,
   finish_position |-> 0, live |-> alive, dlive |-> alive, answer |-> Unanswered]

\* The fetches in flight are a bag: the same request can be pending twice.
InFlight(n) == BagCardinality(n)
Pending(n) == BagToSet(n)
Put(n, m) == n (+) SetToBag({m})
Take(n, m) == n (-) SetToBag({m})
Issue(n, k, tk, l, a, alive) == Put(n, Request(k, tk, l, a, alive))

\* The model lets the user and the interval start a fetch while fewer than
\* capacity fetches are pending; the fetches continuations and effects start
\* themselves are not held back.
CanSend == InFlight(net) < capacity

RECURSIVE SumOver(_, _)
SumOver(n, S) == IF S = {} THEN 0
                 ELSE LET m == CHOOSE x \in S : TRUE IN n[m] + SumOver(n, S \ {m})
MapBag(n, F(_)) ==
  [ t \in { F(m) : m \in Pending(n) } |-> SumOver(n, { m \in Pending(n) : F(m) = t }) ]
Without(n, kinds) == [ m \in { x \in Pending(n) : x.kind \notin kinds } |-> n[m] ]

\* setState of an unmounted component instance does nothing.  The
\* continuations of fetchGameStatus, handleCheckIn, startGame, resetGame and
\* fetchLeagues do nothing else (a successful mutating call re-polls, and the
\* re-poll only sets state), so once their instance is unmounted their pending
\* fetches can change nothing any more and are no longer followed.  The
\* continuations of handleJoinLeague and of the modal's handleSubmit still
\* alert, and login and register belong to the AuthProvider, which stays.
InertKinds == GameKinds \cup {"leagues"}
Orphan(m, kinds) == IF m.kind \in kinds THEN [m EXCEPT !.live = FALSE] ELSE m
Kill(n, kinds) == MapBag(Without(n, kinds \cap InertKinds), LAMBDA m : Orphan(m, kinds))
OrphanAll(m) ==
  IF m.kind \in {"join", "create"}
    THEN [m EXCEPT !.live = FALSE, !.dlive = FALSE] ELSE m
KillDashboard(n) == MapBag(Without(n, InertKinds), OrphanAll)

\* What the backend (or the transport) can answer to a pending fetch.
Ok(d) == [outcome |-> "ok", data |-> d]
Rejected == [outcome |-> "rejected", data |-> [detail |-> Detail]]
Threw == [outcome |-> "threw", data |-> [none |-> TRUE]]
NoData == [none |-> TRUE]

OkAnswers(m) ==
  CASE m.kind \in FormKinds -> { Ok([access_token |-> u, user |-> u]) : u \in Users }
    [] m.kind = "me" -> IF m.token \in Tokens THEN { Ok([user |-> m.token]) } ELSE {}
    [] m.kind = "leagues" ->
         { Ok([my |-> LeagueList(mine), all |-> LeagueList(every)]) :
             mine \in SUBSET Leagues, every \in SUBSET Leagues }
    [] m.kind = "status" -> { Ok(s) : s \in Snapshots }
    [] OTHER -> { Ok(NoData) }
Answers(m) == OkAnswers(m) \cup {Rejected, Threw}

\* ------------------------------------------------------------ what renders
\* App (768-787), Dashboard (276-278), GameInterface (647-654)
\* a top-level view that does not wait for the loading flag
AppView_NoLoadingScreen(ld, u) == IF u # NoUser THEN "dashboard" ELSE "auth"

\* what App renders (770-785): the loading screen, the Dashboard or the AuthForm
AppView(ld, u) ==
  IF ld THEN "loading" ELSE IF u # NoUser THEN "dashboard" ELSE "auth"

AuthFormMounted == AppView(authLoading, user) = "auth"
DashMounted == AppView(authLoading, user) = "dashboard"
GameMounted == DashMounted /\ selectedLeague # NoLeague
DashboardView == DashMounted /\ selectedLeague = NoLeague
GameView == GameMounted /\ ~loading
isCheckedIn == user \in checkedInUsers
isAdmin == selectedLeague # NoLeague /\ selectedLeague.admin_id = user
Idle == alertShown = NoAlert

\* ---------------------------------------------------------- initial states
FormInit == formError = NoError /\ formLoading = FALSE
DashInit == /\ myLeagues = << >> /\ allLeagues = << >> /\ dashLoading = TRUE
            /\ selectedLeague = NoLeague /\ showCreateForm = FALSE
            /\ createLoading = FALSE
GameInit == /\ gameStatus = NullStatus /\ loading = TRUE
            /\ checkedInUsers = {} /\ intervalOn = FALSE
            /\ pollToken = NoToken
FormReset == formError' = NoError /\ formLoading' = FALSE
DashReset == /\ myLeagues' = << >> /\ allLeagues' = << >> /\ dashLoading' = TRUE
             /\ selectedLeague' = NoLeague /\ showCreateForm' = FALSE
             /\ createLoading' = FALSE
\* an unmount that leaves the interval running
GameReset_KeepsInterval ==
  /\ gameStatus' = NullStatus /\ loading' = TRUE
  /\ checkedInUsers' = {} /\ intervalOn' = intervalOn
  /\ pollToken' = NoToken
GameReset == /\ gameStatus' = NullStatus /\ loading' = TRUE
             /\ checkedInUsers' = {} /\ intervalOn' = FALSE
             /\ pollToken' = NoToken

NotRendered == [rendered |-> FALSE, tables |-> << >>]
LayoutIdle == assignments = << >> /\ layout = NotRendered
PickerClosed == [open |-> FALSE, options |-> << >>]
PickerIdle == /\ pickerSnap = NullStatus /\ pickerOffered = PickerClosed
              /\ pickerSent = 0
ResultsIdle == draft = << >>
\* Where the backend is not followed, a fetch can be answered with anything
\* the API allows and server stays NoServer.
NoServer == [null |-> TRUE]
ServerIdle == server = NoServer
AppIdle == /\ user = NoUser /\ token = NoToken /\ storedToken = NoToken
           /\ authLoading = FALSE /\ FormInit /\ DashInit /\ GameInit
           /\ alertShown = NoAlert /\ net = EmptyBag /\ capacity = 0
           /\ ServerIdle
           /\ last = [op |-> "idle", outcome |-> "none", live |-> TRUE, data |-> [none |-> TRUE]]

\* last tells which continuation ran in the step that led here: the kind of
\* its fetch, how the fetch ended, whether its component instance was still
\* mounted, and the snapshot a mounted game room was handed; a step of the
\* user or the interval leaves UserStep.
UserStep == [op |-> "user", outcome |-> "none", live |-> TRUE, data |-> NoData]
Acted == last' = UserStep
Ran(m, r) ==
  last' = [op |-> m.kind, outcome |-> r.outcome, live |-> m.live,
           data |-> IF m.kind = "status" /\ r.outcome = "ok" /\ m.live
                      THEN r.data
                    ELSE IF m.kind \in FormKinds /\ r.outcome = "ok"
                      THEN r.data
                    ELSE IF m.kind = "leagues" /\ r.outcome = "ok" /\ m.live
                      THEN r.data ELSE NoData]
\* the step was a press of the Logout button
LogoutStep == [op |-> "logout", outcome |-> "none", live |-> TRUE, data |-> NoData]
\* the step was the start of the page
InitStep == [op |-> "init", outcome |-> "none", live |-> TRUE, data |-> NoData]

\* AuthProvider: useState (18-20) and the first run of the token effect (22-28)
Init ==
  /\ storedToken \in {NoToken} \cup Tokens
  /\ token = storedToken
  /\ user = NoUser
  /\ authLoading = (token # NoToken)
  /\ net = IF token # NoToken THEN Issue(EmptyBag, "me", token, 0, "", TRUE) ELSE EmptyBag
  /\ FormInit /\ DashInit /\ GameInit
  /\ alertShown = NoAlert
  /\ capacity = MaxAppInFlight
  /\ last = [op |-> "init", outcome |-> "none", live |-> TRUE, data |-> [none |-> TRUE]]
  /\ LayoutIdle /\ PickerIdle /\ ResultsIdle /\ ServerIdle

\* ------------------------------------------------------------ AuthProvider
\* A change of the session (setUser, setToken, setLoading, localStorage) and
\* what React does with it: the token effect (22-28) runs when the token
\* value changed, and App (768-787) mounts or unmounts AuthForm and Dashboard
\* (with the GameInterface under it).  al0 is the loading flag the handler
\* itself leaves, n0 the fetches left in flight by the handler.
SessionUpdate(u2, t2, s2, al0, n0) ==
  LET tokenChanged == t2 # token
      al2 == IF tokenChanged /\ t2 = NoToken THEN FALSE ELSE al0
      n1 == IF tokenChanged /\ t2 # NoToken
              THEN Issue(n0, "me", t2, 0, "", TRUE) ELSE n0
      isForm == ~al2 /\ u2 = NoUser
      isDash == ~al2 /\ u2 # NoUser
      n2 == IF DashMounted /\ ~isDash THEN KillDashboard(n1) ELSE n1
      n3 == IF AuthFormMounted /\ ~isForm THEN Kill(n2, FormKinds) ELSE n2
      n4 == IF ~DashMounted /\ isDash
              THEN Issue(n3, "leagues", t2, 0, "", TRUE) ELSE n3
  IN /\ user' = u2 /\ token' = t2 /\ storedToken' = s2 /\ authLoading' = al2
     /\ net' = n4
     /\ IF AuthFormMounted /\ isForm THEN UNCHANGED formVars ELSE FormReset
     /\ IF DashMounted /\ isDash
          THEN UNCHANGED << dashVars, gameVars >>
          ELSE DashReset /\ GameReset

\* a logout that leaves the token in localStorage
LogoutUpdate_KeepsStoredToken(al0, n0) ==
  SessionUpdate(NoUser, NoToken, storedToken, al0, n0)

\* logout (100-104)
LogoutUpdate(al0, n0) == SessionUpdate(NoUser, NoToken, NoToken, al0, n0)

\* a login that does not write the token to localStorage
LoginSuccess_NotStored(data, n0) ==
  SessionUpdate(data.user, data.access_token, storedToken, authLoading, n0)

\* the session a successful login or register leaves (60-65, 85-90)
LoginSuccess(data, n0) ==
  SessionUpdate(data.user, data.access_token, data.access_token, authLoading, n0)

\* fetchCurrentUser (30-48), from the response on
MeResponse(m, r) ==
  /\ m.kind = "me"
  /\ IF r.outcome = "ok"
       THEN SessionUpdate(r.data.user, token, storedToken, FALSE, Take(net, m))
       ELSE LogoutUpdate(FALSE, Take(net, m))
  /\ Ran(m, r)
  /\ UNCHANGED alertShown

\* AuthForm.handleSubmit (125-138) up to the await: login or register is sent
Submit(k) ==
  /\ AuthFormMounted /\ Idle /\ ~formLoading
  /\ CanSend
  /\ formLoading' = TRUE /\ formError' = NoError
  /\ net' = Issue(net, k, NoToken, 0, "", TRUE)
  /\ Acted
  /\ UNCHANGED << sessionVars, dashVars, gameVars, alertShown >>

\* the error login (66-72) and register (91-97) return on failure
AuthFailure(k, r) ==
  IF r.outcome = "rejected" THEN r.data.detail
  ELSE IF k = "login" THEN LoginFailed ELSE RegistrationFailed

\* login (50-73) / register (75-98) from the response on, then the rest of
\* AuthForm.handleSubmit (134-137)
LoginResponse(m, r) ==
  /\ m.kind \in FormKinds
  /\ IF r.outcome = "ok"
       THEN LoginSuccess(r.data, Take(net, m))
       ELSE /\ net' = Take(net, m)
            /\ IF m.live
                 THEN formError' = AuthFailure(m.kind, r) /\ formLoading' = FALSE
                 ELSE UNCHANGED formVars
            /\ UNCHANGED << sessionVars, dashVars, gameVars >>
  /\ Ran(m, r)
  /\ UNCHANGED alertShown

\* the Logout button of the Dashboard header (291-293)
Logout ==
  /\ DashboardView /\ Idle /\ ~showCreateForm
  /\ LogoutUpdate(authLoading, net)
  /\ last' = LogoutStep
  /\ UNCHANGED alertShown

\* The page is reloaded: every component is built anew, the fetches of the old
\* page are gone, and the token is read from localStorage (19) before the
\* token effect runs (22-28).
Reload ==
  /\ Idle
  /\ storedToken' = storedToken /\ token' = storedToken /\ user' = NoUser
  /\ authLoading' = (storedToken # NoToken)
  /\ net' = IF storedToken # NoToken
              THEN Issue(EmptyBag, "me", storedToken, 0, "", TRUE) ELSE EmptyBag
  /\ FormReset /\ DashReset /\ GameReset
  /\ alertShown' = NoAlert
  /\ last' = InitStep

\* --------------------------------------------------------------- Dashboard
\* a joinable list that is the whole server list
Joinable_All(allData, myData) == allData

\* allData.filter(league => !myData.some(myLeague => myLeague.id === league.id))
Joinable(allData, myData) ==
  SelectSeq(allData, LAMBDA league : ~(\E i \in DOMAIN myData : myData[i].id = league.id))

\* fetchLeagues (229-252), from the two responses on
LeaguesResponse(m, r) ==
  /\ m.kind = "leagues"
  /\ net' = Take(net, m)
  /\ IF m.live
       THEN /\ dashLoading' = FALSE
            /\ IF r.outcome = "ok"
                 THEN /\ myLeagues' = r.data.my
                      /\ allLeagues' = Joinable(r.data.all, r.data.my)
                 ELSE UNCHANGED << myLeagues, allLeagues >>
       ELSE UNCHANGED << myLeagues, allLeagues, dashLoading >>
  /\ Ran(m, r)
  /\ UNCHANGED << sessionVars, formVars, selectedLeague, showCreateForm,
                  createLoading, gameVars, alertShown >>

\* handleJoinLeague (254-274) up to the await
JoinLeague(l) ==
  /\ DashboardView /\ Idle /\ ~showCreateForm /\ ~dashLoading
  /\ \E i \in DOMAIN allLeagues : allLeagues[i].id = l
  /\ CanSend
  /\ net' = Issue(net, "join", token, l, "", TRUE)
  /\ Acted
  /\ UNCHANGED << sessionVars, formVars, dashVars, gameVars, alertShown >>

\* window.alert(error.detail)
Alert(detail) == detail

\* handleJoinLeague (265-273), from the response on
JoinResponse(m, r) ==
  /\ m.kind = "join"
  /\ net' = IF r.outcome = "ok" /\ m.live
              THEN Issue(Take(net, m), "leagues", m.token, 0, "", TRUE)
              ELSE Take(net, m)
  /\ alertShown' = IF r.outcome = "rejected" THEN Alert(r.data.detail) ELSE alertShown
  /\ Ran(m, r)
  /\ UNCHANGED << sessionVars, formVars, dashVars, gameVars >>

\* the Create League button (288-290)
OpenCreate ==
  /\ DashboardView /\ Idle /\ ~showCreateForm
  /\ showCreateForm' = TRUE
  /\ Acted
  /\ UNCHANGED << sessionVars, formVars, myLeagues, allLeagues, dashLoading,
                  selectedLeague, createLoading, gameVars, alertShown, net >>

\* onClose (340) pressed in the modal: the modal instance goes away
CloseCreate ==
  /\ DashboardView /\ Idle /\ showCreateForm
  /\ showCreateForm' = FALSE /\ createLoading' = FALSE
  /\ net' = Kill(net, {"create"})
  /\ Acted
  /\ UNCHANGED << sessionVars, formVars, myLeagues, allLeagues, dashLoading,
                  selectedLeague, gameVars, alertShown >>

\* CreateLeagueModal.handleSubmit (417-442) up to the await
SubmitCreate ==
  /\ DashboardView /\ Idle /\ showCreateForm /\ ~createLoading
  /\ CanSend
  /\ createLoading' = TRUE
  /\ net' = Issue(net, "create", token, 0, "", TRUE)
  /\ Acted
  /\ UNCHANGED << sessionVars, formVars, myLeagues, allLeagues, dashLoading,
                  selectedLeague, showCreateForm, gameVars, alertShown >>

\* CreateLeagueModal.handleSubmit (431-441), from the response on:
\* onSuccess() is the Dashboard's fetchLeagues, onClose() its setShowCreateForm(false)
CreateResponse(m, r) ==
  /\ m.kind = "create"
  /\ LET closes == r.outcome = "ok" /\ m.dlive /\ showCreateForm
         n1 == IF r.outcome = "ok" /\ m.dlive
                 THEN Issue(Take(net, m), "leagues", m.token, 0, "", TRUE)
                 ELSE Take(net, m)
     IN /\ net' = IF closes THEN Kill(n1, {"create"}) ELSE n1
        /\ showCreateForm' = IF closes THEN FALSE ELSE showCreateForm
        /\ createLoading' = IF closes \/ m.live THEN FALSE ELSE createLoading
  /\ alertShown' = IF r.outcome = "rejected" THEN Alert(r.data.detail) ELSE alertShown
  /\ Ran(m, r)
  /\ UNCHANGED << sessionVars, formVars, myLeagues, allLeagues, dashLoading,
                  selectedLeague, gameVars >>

\* the alert is blocking: nothing else runs until it is dismissed
DismissAlert ==
  /\ alertShown # NoAlert
  /\ alertShown' = NoAlert
  /\ Acted
  /\ UNCHANGED << sessionVars, formVars, dashVars, gameVars, net >>

\* Enter Game Room (385): setSelectedLeague(league) mounts GameInterface, whose
\* effect (531-535) fetches the status and starts the interval
SelectLeague(L) ==
  /\ DashboardView /\ Idle /\ ~showCreateForm /\ ~dashLoading
  /\ L \in Range(myLeagues)
  /\ CanSend
  /\ selectedLeague' = L
  /\ gameStatus' = NullStatus /\ loading' = TRUE /\ checkedInUsers' = {}
  /\ intervalOn' = TRUE /\ pollToken' = token
  /\ net' = Issue(net, "status", token, L.id, "", TRUE)
  /\ Acted
  /\ UNCHANGED << sessionVars, formVars, myLeagues, allLeagues, dashLoading,
                  showCreateForm, createLoading, alertShown >>

\* Back to Dashboard (665, 277): GameInterface unmounts, clearInterval (534)
Back ==
  /\ GameView /\ Idle
  /\ selectedLeague' = NoLeague
  /\ GameReset
  /\ net' = Kill(net, GameKinds)
  /\ Acted
  /\ UNCHANGED << sessionVars, formVars, myLeagues, allLeagues, dashLoading,
                  showCreateForm, createLoading, alertShown >>

\* ----------------------------------------------------------- GameInterface
\* a merge that keeps the seats of the snapshot held before
SetGameStatus_KeepsSeats(prev, data) ==
  IF prev = NullStatus THEN data
  ELSE [data EXCEPT !.seat_assignments = prev.seat_assignments]

\* setGameStatus(data) (545)
SetGameStatus(prev, data) == data

\* new Set(data.seat_assignments.map(a => a.user_id)) (546)
CheckedInOf(data) == { data.seat_assignments[i].user_id : i \in DOMAIN data.seat_assignments }

\* a game room that keeps the first snapshot it was handed
GameStatusAfter_FirstOnly(r, prev) ==
  IF r.outcome = "ok" /\ prev = NullStatus THEN r.data ELSE prev

\* gameStatus after fetchGameStatus: replaced on success (543-545), kept by a
\* non-ok response and by the catch (549-552)
GameStatusAfter(r, prev) == IF r.outcome = "ok" THEN SetGameStatus(prev, r.data) ELSE prev

\* a checked-in set that only grows
CheckedInAfter_Accumulates(r, prev) ==
  IF r.outcome = "ok" THEN prev \cup CheckedInOf(r.data) ELSE prev

\* checkedInUsers after fetchGameStatus (546)
CheckedInAfter(r, prev) == IF r.outcome = "ok" THEN CheckedInOf(r.data) ELSE prev

\* the loading flag after fetchGameStatus: cleared on success (547) and in the
\* catch (551), left alone by a non-ok response (543-548 has no else)
LoadingAfterStatus(outcome, before) == IF outcome = "rejected" THEN before ELSE FALSE

\* setInterval(fetchGameStatus, 3000) (533) fires
Tick ==
  /\ GameMounted /\ intervalOn /\ Idle
  /\ CanSend
  /\ net' = Issue(net, "status", pollToken, selectedLeague.id, "", TRUE)
  /\ Acted
  /\ UNCHANGED << sessionVars, formVars, dashVars, gameVars, alertShown >>

\* fetchGameStatus (537-553), from the response on
StatusResponse(m, r) ==
  /\ m.kind = "status"
  /\ net' = Take(net, m)
  /\ IF m.live
       THEN /\ loading' = LoadingAfterStatus(r.outcome, loading)
            /\ gameStatus' = GameStatusAfter(r, gameStatus)
            /\ checkedInUsers' = CheckedInAfter(r, checkedInUsers)
       ELSE UNCHANGED << gameStatus, loading, checkedInUsers >>
  /\ Ran(m, r)
  /\ UNCHANGED << sessionVars, formVars, dashVars, intervalOn, pollToken, alertShown >>

\* onClick of my-checkin-btn (694): the action handed to handleCheckIn
ToggleAction == IF isCheckedIn THEN "check_out" ELSE "check_in"

\* a toggle that ignores presses while a checkin request is pending
PressToggle_OnceAtATime ==
  /\ GameView /\ Idle
  /\ CanSend
  /\ \A x \in Pending(net) : x.kind # "checkin"
  /\ net' = Issue(net, "checkin", token, selectedLeague.id, ToggleAction, TRUE)
  /\ Acted
  /\ UNCHANGED << sessionVars, formVars, dashVars, gameVars, alertShown >>

\* my-checkin-btn pressed (692-697): handleCheckIn (555-567) up to the await
PressToggle ==
  /\ GameView /\ Idle
  /\ CanSend
  /\ net' = Issue(net, "checkin", token, selectedLeague.id, ToggleAction, TRUE)
  /\ Acted
  /\ UNCHANGED << sessionVars, formVars, dashVars, gameVars, alertShown >>

\* a start button that is also disabled once the game has started
StartDisabled_WhenStarted ==
  \/ gameStatus = NullStatus
  \/ gameStatus.checked_in_players < 2
  \/ gameStatus.game_started

\* disabled={!gameStatus || gameStatus.checked_in_players < 2} (722)
StartDisabled == gameStatus = NullStatus \/ gameStatus.checked_in_players < 2

\* start-game-btn pressed (719-725): startGame (577-582) up to the await
PressStart ==
  /\ GameView /\ Idle /\ isAdmin /\ ~StartDisabled
  /\ CanSend
  /\ net' = Issue(net, "start", token, selectedLeague.id, "", TRUE)
  /\ Acted
  /\ UNCHANGED << sessionVars, formVars, dashVars, gameVars, alertShown >>

\* reset-game-btn pressed (726-731): resetGame (591-596) up to the await
PressReset ==
  /\ GameView /\ Idle /\ isAdmin
  /\ CanSend
  /\ net' = Issue(net, "reset", token, selectedLeague.id, "", TRUE)
  /\ Acted
  /\ UNCHANGED << sessionVars, formVars, dashVars, gameVars, alertShown >>

\* what handleCheckIn / startGame / resetGame show the user on a response:
\* nothing (569-574, 583-588, 597-602 have no else branch)
MutatingAlert(r, shown) == shown

\* a mutating call that does not refresh
Repoll_Never(n, m) == n

\* fetchGameStatus() // Refresh status (570, 584, 598): the closure of the
\* handler still holds the token and the league its own request carried
Repoll(n, m) == Issue(n, "status", m.token, m.league, "", m.live)

\* handleCheckIn (569-574), startGame (583-588), resetGame (597-602), from the
\* response on: a success re-polls, anything else does nothing
MutatingResponse(m, r) ==
  /\ m.kind \in MutatingKinds
  /\ net' = IF r.outcome = "ok"
              THEN Repoll(Take(net, m), m)
              ELSE Take(net, m)
  /\ alertShown' = MutatingAlert(r, alertShown)
  /\ Ran(m, r)
  /\ UNCHANGED << sessionVars, formVars, dashVars, gameVars >>

\* ------------------------------------------------------------ the whole app
\* (a pending fetch resolves with any answer and its continuation runs)
\* the rest of the module's state belongs to the derivations modelled below
InApp(A) == A /\ UNCHANGED << capacity, layoutVars, pickerVars, draft, server >>

Next ==
  \/ \E k \in FormKinds : InApp(Submit(k))
  \/ InApp(Logout)
  \/ InApp(Reload)
  \/ \E l \in Leagues : InApp(JoinLeague(l))
  \/ InApp(OpenCreate)
  \/ InApp(CloseCreate)
  \/ InApp(SubmitCreate)
  \/ InApp(DismissAlert)
  \/ \E l \in Leagues : InApp(SelectLeague(League(l)))
  \/ InApp(Back)
  \/ InApp(Tick)
  \/ InApp(PressToggle)
  \/ InApp(PressStart)
  \/ InApp(PressReset)
  \/ \E m \in Pending(net) : \E r \in Answers(m) : InApp(Idle /\ MeResponse(m, r))
  \/ \E m \in Pending(net) : \E r \in Answers(m) : InApp(Idle /\ LoginResponse(m, r))
  \/ \E m \in Pending(net) : \E r \in Answers(m) : InApp(Idle /\ LeaguesResponse(m, r))
  \/ \E m \in Pending(net) : \E r \in Answers(m) : InApp(Idle /\ JoinResponse(m, r))
  \/ \E m \in Pending(net) : \E r \in Answers(m) : InApp(Idle /\ CreateResponse(m, r))
  \/ \E m \in Pending(net) : \E r \in Answers(m) : InApp(Idle /\ StatusResponse(m, r))
  \/ \E m \in Pending(net) : \E r \in Answers(m) : InApp(Idle /\ MutatingResponse(m, r))

Spec == Init /\ [][Next]_vars

\* ------------------------------------------------------------ the game room
\* GameInterface as it mounts (526-535) for a member u of league l, after login
\* and fetchLeagues have completed: the first status fetch is pending and the
\* interval runs.
InitGame ==
  /\ \E u \in Users, l \in Leagues :
       /\ user = u /\ token = u /\ storedToken = u /\ pollToken = u
       /\ selectedLeague = League(l) /\ myLeagues = LeagueList({l})
       /\ net = Issue(EmptyBag, "status", u, l, "", TRUE)
  /\ authLoading = FALSE
  /\ FormInit
  /\ allLeagues = << >> /\ dashLoading = FALSE
  /\ showCreateForm = FALSE /\ createLoading = FALSE
  /\ gameStatus = NullStatus /\ loading = TRUE /\ checkedInUsers = {}
  /\ intervalOn = TRUE
  /\ alertShown = NoAlert
  /\ capacity = MaxInFlight
  /\ last = [op |-> "init", outcome |-> "none", live |-> TRUE, data |-> [none |-> TRUE]]
  /\ LayoutIdle /\ PickerIdle /\ ResultsIdle /\ ServerIdle

NextGame ==
  \/ \E l \in Leagues : InApp(SelectLeague(League(l)))
  \/ InApp(Back)
  \/ InApp(Tick)
  \/ InApp(PressToggle)
  \/ InApp(PressStart)
  \/ InApp(PressReset)
  \/ \E m \in Pending(net) : \E r \in Answers(m) : InApp(StatusResponse(m, r))
  \/ \E m \in Pending(net) : \E r \in Answers(m) : InApp(MutatingResponse(m, r))

SpecGame == InitGame /\ [][NextGame]_vars

\* ------------------------------------------ the game room and its backend
\* The game room polling a backend that is followed: the backend holds the
\* game state of the league (who is checked in, whether the game has started),
\* which changes through the calls of any client until it settles (quiet).
\* A status request is answered from the state the backend has when it serves
\* the request; the response reaches fetchGameStatus some time later.  Once
\* the backend is quiet, every request it serves succeeds.
SyncUsers == 1..MaxSyncUser
ServerStates == [checked_in : SUBSET SyncUsers, started : BOOLEAN, quiet : BOOLEAN]
ServerSnapshot(sv) == Snapshot(sv.checked_in, sv.started)
ServerAnswers(sv) ==
  IF sv.quiet THEN { Ok(ServerSnapshot(sv)) }
  ELSE { Ok(ServerSnapshot(sv)), Rejected, Threw }

\* the user and the league of the game room that is followed
SyncUser == Min(SyncUsers)
SyncLeague == Min(Leagues)

\* GameInterface as it mounts (526-535), as in InitGame
InitRoom ==
  /\ user = SyncUser /\ token = SyncUser /\ storedToken = SyncUser
  /\ pollToken = SyncUser
  /\ selectedLeague = League(SyncLeague) /\ myLeagues = LeagueList({SyncLeague})
  /\ net = Issue(EmptyBag, "status", SyncUser, SyncLeague, "", TRUE)
  /\ authLoading = FALSE
  /\ FormInit
  /\ allLeagues = << >> /\ dashLoading = FALSE
  /\ showCreateForm = FALSE /\ createLoading = FALSE
  /\ gameStatus = NullStatus /\ loading = TRUE /\ checkedInUsers = {}
  /\ intervalOn = TRUE
  /\ alertShown = NoAlert
  /\ capacity = MaxInFlight
  /\ last = InitStep
  /\ LayoutIdle /\ PickerIdle /\ ResultsIdle

InitSync ==
  /\ InitRoom
  /\ server \in { sv \in ServerStates : ~sv.quiet }

\* the backend serves a pending status request
Serve(m) ==
  /\ m \in Pending(net) /\ m.kind = "status" /\ m.answer = Unanswered
  /\ \E a \in ServerAnswers(server) :
       net' = Put(Take(net, m), [m EXCEPT !.answer = a])
  /\ UNCHANGED << sessionVars, formVars, dashVars, gameVars, alertShown,
                  capacity, last, server, layoutVars, pickerVars, draft >>

\* the response reaches fetchGameStatus (537-553)
Deliver(m) ==
  /\ m \in Pending(net) /\ m.answer # Unanswered
  /\ InApp(StatusResponse(m, m.answer))

\* some client's call changes the game state of the league
ServerChange ==
  /\ ~server.quiet
  /\ \E sv \in ServerStates : ~sv.quiet /\ sv # server /\ server' = sv
  /\ UNCHANGED << sessionVars, formVars, dashVars, gameVars, alertShown, net,
                  capacity, last, layoutVars, pickerVars, draft >>

\* the game state stops changing and requests succeed from now on
Settle ==
  /\ ~server.quiet
  /\ server' = [server EXCEPT !.quiet = TRUE]
  /\ UNCHANGED << sessionVars, formVars, dashVars, gameVars, alertShown, net,
                  capacity, last, layoutVars, pickerVars, draft >>

\* the status requests there can be, on their way out or back
SyncRequests ==
  { [Request("status", SyncUser, SyncLeague, "", TRUE) EXCEPT !.answer = a] :
      a \in {Unanswered, Rejected, Threw}
             \cup { Ok(Snapshot(S, b)) : S \in SUBSET SyncUsers, b \in BOOLEAN } }

NextSync ==
  \/ InApp(Tick)
  \/ \E m \in SyncRequests : Serve(m)
  \/ \E m \in SyncRequests : Deliver(m)
  \/ ServerChange
  \/ Settle

\* The interval fires every 3000 ms (533) for as long as the game room is
\* mounted, and every request is served and every response delivered.
SpecSync ==
  /\ InitSync /\ [][NextSync]_vars
  /\ WF_vars(InApp(Tick))
  /\ \A m \in SyncRequests : WF_vars(Serve(m)) /\ WF_vars(Deliver(m))

\* ---------------------------------------- the order of the backend's states
\* The game room of SpecSync, with the backend keeping the game states it has
\* produced, oldest first. Every change leads to a game state the league has
\* not been in, so a snapshot tells when the backend produced it.
MaxChanges == 2

Produced(sv) ==
  [checked_in |-> sv.checked_in, started |-> sv.started, quiet |-> FALSE,
   produced |-> << ServerSnapshot(sv) >>]

InitOrder ==
  /\ InitRoom
  /\ \E sv \in ServerStates : ~sv.quiet /\ server = Produced(sv)

\* some client's call changes the game state of the league
ChangeOnce ==
  /\ Len(server.produced) <= MaxChanges
  /\ \E sv \in ServerStates :
       /\ ~sv.quiet
       /\ ServerSnapshot(sv) \notin Range(server.produced)
       /\ server' = [Produced(sv) EXCEPT
                       !.produced = server.produced \o << ServerSnapshot(sv) >>]
  /\ UNCHANGED << sessionVars, formVars, dashVars, gameVars, alertShown, net,
                  capacity, last, layoutVars, pickerVars, draft >>

NextOrder ==
  \/ InApp(Tick)
  \/ \E m \in SyncRequests : Serve(m)
  \/ \E m \in SyncRequests : Deliver(m)
  \/ ChangeOnce

SpecOrder == InitOrder /\ [][NextOrder]_vars

\* ------------------------------------------------------- the league browser
\* Dashboard as it mounts (218-227) for a logged-in user u: its effect has
\* called fetchLeagues, whose fetches are pending.
InitDash ==
  /\ \E u \in Users :
       /\ user = u /\ token = u /\ storedToken = u
       /\ net = Issue(EmptyBag, "leagues", u, 0, "", TRUE)
  /\ authLoading = FALSE
  /\ FormInit /\ DashInit /\ GameInit
  /\ alertShown = NoAlert
  /\ capacity = MaxInFlight
  /\ last = InitStep
  /\ LayoutIdle /\ PickerIdle /\ ResultsIdle /\ ServerIdle

NextDash ==
  \/ \E l \in Leagues : InApp(JoinLeague(l))
  \/ InApp(OpenCreate)
  \/ InApp(CloseCreate)
  \/ InApp(SubmitCreate)
  \/ InApp(DismissAlert)
  \/ \E m \in Pending(net) : \E r \in Answers(m) : InApp(Idle /\ LeaguesResponse(m, r))
  \/ \E m \in Pending(net) : \E r \in Answers(m) : InApp(Idle /\ JoinResponse(m, r))
  \/ \E m \in Pending(net) : \E r \in Answers(m) : InApp(Idle /\ CreateResponse(m, r))

SpecDash == InitDash /\ [][NextDash]_vars

\* ------------------------------------------------- table / seat layout
\* The tables area drawn from the seat_assignments of the held snapshot:
\* tables (656-657) and the tables-grid (755-759) of renderPokerTable (605-645).
\* A seat node is occupied by the player found for it, or empty.
NoPlayer == [none |-> TRUE]

\* the values of xs with their repetitions
Distinct_Every(xs) == xs

\* [...new Set(xs)]: the distinct values of xs, in order of first occurrence
RECURSIVE Distinct(_)
Distinct(xs) ==
  IF xs = << >> THEN << >>
  ELSE LET front == Distinct(SubSeq(xs, 1, Len(xs) - 1))
           x == xs[Len(xs)]
       IN IF x \in Range(front) THEN front ELSE Append(front, x)

\* a search that keeps the last element that passes
FirstOf_Last(hits) == hits[Len(hits)]

\* the element find settles on: the first that passes the test
FirstOf(hits) == hits[1]

\* Array.prototype.find: the first element that passes the test, or undefined
Find(xs, Test(_)) ==
  LET hits == SelectSeq(xs, Test) IN IF hits = << >> THEN NoPlayer ELSE FirstOf(hits)

\* the seat numbers renderPokerTable lays out (620)
SeatNumbers == [ i \in 1..NumSeats |-> i ]

\* renderPokerTable(tableNumber, assignments) (605-645)
renderPokerTable(tableNumber, as) ==
  LET tableSeats == SelectSeq(as, LAMBDA a : a.table_number = tableNumber)
      Seat(seatNum) ==
        LET player == Find(tableSeats, LAMBDA x : x.seat_number = seatNum)
        IN [seat_number |-> seatNum, occupied |-> player # NoPlayer, player |-> player]
  IN [table_number |-> tableNumber,
      player_count |-> Len(tableSeats),
      seats |-> Map(SeatNumbers, Seat)]

\* tables (656-657)
TablesOf(as) == Distinct(Map(as, LAMBDA a : a.table_number))

\* tables.map(tableNum => renderPokerTable(tableNum, gameStatus.seat_assignments)) (756-758)
TablesGrid(as) == Map(TablesOf(as), LAMBDA t : renderPokerTable(t, as))

\* a tables area without the empty state
TablesArea_AlwaysGrid(gs) ==
  [empty_state |-> FALSE,
   tables |-> IF gs = NullStatus THEN << >> ELSE TablesGrid(gs.seat_assignments)]

\* the tables area of the game room (746-760) over the held snapshot gs:
\* gameStatus?.checked_in_players === 0 picks the empty state, anything else
\* the tables-grid over tables (656-657), which is [] while gs is null
TablesArea(gs) ==
  IF gs # NullStatus /\ gs.checked_in_players = 0
    THEN [empty_state |-> TRUE, tables |-> << >>]
    ELSE [empty_state |-> FALSE,
          tables |-> IF gs = NullStatus THEN << >> ELSE TablesGrid(gs.seat_assignments)]

\* the seat-assignment lists a snapshot may carry; nothing makes them unique
SeatAssignments ==
  [user_id : Users, table_number : 1..MaxTable, seat_number : 1..MaxSeatGiven]
RECURSIVE ListsUpTo(_, _)
ListsUpTo(S, n) ==
  IF n = 0 THEN { << >> }
  ELSE LET shorter == ListsUpTo(S, n - 1)
       IN shorter \cup { Append(xs, x) : xs \in { y \in shorter : Len(y) = n - 1 }, x \in S }

InitLayout ==
  /\ assignments \in ListsUpTo(SeatAssignments, MaxAssignments)
  /\ layout = NotRendered
  /\ AppIdle /\ PickerIdle /\ ResultsIdle

\* a render of the tables area
RenderTables ==
  /\ ~layout.rendered
  /\ layout' = [rendered |-> TRUE, tables |-> TablesGrid(assignments)]
  /\ UNCHANGED << assignments, appVars, pickerVars, draft >>

NextLayout == RenderTables

SpecLayout == InitLayout /\ [][NextLayout]_vars

\* --------------------------------------------- elimination position picker
\* The picker is described by the specification (section 4.4); App.js holds no
\* such component, so this part follows the specification's text.
\* The snapshots the picker reads: total_initial_players and live_eliminations.
Eliminations == [user_id : Users, finish_position : 1..MaxPlayers]
PickerSnapshots ==
  [total_initial_players : 0..MaxPlayers,
   live_eliminations : ListsUpTo(Eliminations, MaxEliminations)]

\* the positions 1..n, in order
Positions(n) == [ i \in 1..n |-> i ]

\* a picker that offers every position
PickerOptions_All(snap) == Positions(snap.total_initial_players)

\* "selectable finish positions from 1..total_initial_players, excluding
\* positions already claimed by existing live_eliminations"
PickerOptions(snap) ==
  SelectSeq(Positions(snap.total_initial_players),
            LAMBDA p : \A i \in DOMAIN snap.live_eliminations :
                          snap.live_eliminations[i].finish_position # p)

InitPicker ==
  /\ pickerSnap \in PickerSnapshots
  /\ pickerOffered = PickerClosed
  /\ pickerSent = 0
  /\ AppIdle /\ LayoutIdle /\ ResultsIdle

\* the picker opens over the held snapshot
OpenPicker ==
  /\ ~pickerOffered.open /\ pickerSent = 0
  /\ pickerOffered' = [open |-> TRUE, options |-> PickerOptions(pickerSnap)]
  /\ UNCHANGED << pickerSnap, pickerSent, appVars, layoutVars, draft >>

\* "submits a single check_out call carrying the chosen position"
PickPosition ==
  /\ pickerOffered.open
  /\ \E k \in DOMAIN pickerOffered.options : pickerSent' = pickerOffered.options[k]
  /\ pickerOffered' = PickerClosed
  /\ UNCHANGED << pickerSnap, appVars, layoutVars, draft >>

\* the picker is dismissed without a choice
CancelPicker ==
  /\ pickerOffered.open
  /\ pickerOffered' = PickerClosed
  /\ UNCHANGED << pickerSnap, pickerSent, appVars, layoutVars, draft >>

NextPicker == OpenPicker \/ PickPosition \/ CancelPicker

SpecPicker == InitPicker /\ [][NextPicker]_vars

\* ------------------------------------------------------------ results editor
\* The results editor is described by the specification (section 4.5); App.js
\* holds no such component, so this part follows the specification's text.
\* "Seeds a draft Result per league member, defaulting finish_position to
\* array index+1" (array indices from 0, so member k of 1..n gets k)
SeedDraft(n) == [ k \in 1..n |-> [user_id |-> k, finish_position |-> k] ]

\* a shift that leaves out the row now at the new position
Shifted_OpenAtNew(pos, old, new) ==
  IF new < old /\ pos > new /\ pos < old THEN pos + 1
  ELSE IF new > old /\ pos > old /\ pos < new THEN pos - 1
  ELSE pos

\* the position of another row after the edited row moves from old to new
Shifted(pos, old, new) ==
  IF new < old /\ pos >= new /\ pos < old THEN pos + 1
  ELSE IF new > old /\ pos > old /\ pos <= new THEN pos - 1
  ELSE pos

\* a stable sort by finish_position (insertion from the front)
RECURSIVE InsertByPosition(_, _)
InsertByPosition(sorted, row) ==
  IF sorted = << >> THEN << row >>
  ELSE IF Head(sorted).finish_position <= row.finish_position
       THEN << Head(sorted) >> \o InsertByPosition(Tail(sorted), row)
       ELSE << row >> \o sorted
RECURSIVE SortByPosition(_)
SortByPosition(rows) ==
  IF rows = << >> THEN << >>
  ELSE InsertByPosition(SortByPosition(SubSeq(rows, 1, Len(rows) - 1)), rows[Len(rows)])

\* the reassignment on a single position change of row i to newPos
Reassign(rows, i, newPos) ==
  LET old == rows[i].finish_position
      moved == [ k \in DOMAIN rows |->
                   IF k = i THEN [rows[k] EXCEPT !.finish_position = newPos]
                   ELSE [rows[k] EXCEPT !.finish_position = Shifted(@, old, newPos)] ]
  IN SortByPosition(moved)

InitResults ==
  /\ \E n \in 1..MaxMembers : draft = SeedDraft(n)
  /\ AppIdle /\ LayoutIdle /\ PickerIdle

\* the admin edits the position of one row
EditPosition ==
  /\ \E i \in DOMAIN draft, newPos \in 1..Len(draft) :
        draft' = Reassign(draft, i, newPos)
  /\ UNCHANGED << appVars, layoutVars, pickerVars >>

NextResults == EditPosition

SpecResults == InitResults /\ [][NextResults]_vars

\* ------------------------------------------------------------------ claims
\* a checkin request that the step puts in flight
SentCheckin(x) ==
  /\ x \in Pending(net') /\ x.kind = "checkin"
  /\ CopiesIn(x, net') > CopiesIn(x, net)

HoldsSnapshot == GameView /\ gameStatus # NullStatus

\* C1: with a held snapshot that has game_started false, a press of the toggle
\* sends the checkin request directly (check_out if the user is checked in,
\* check_in if not); with game_started true and the user checked in, no checkin
\* request is sent directly: a check_out leaves only from the position picker,
\* carrying the chosen finish_position.
C1_ToggleRouting ==
  [][ \A x \in Pending(net') :
        (HoldsSnapshot /\ SentCheckin(x)) =>
          IF gameStatus.game_started /\ isCheckedIn
            THEN x.action = "check_out" /\ x.finish_position # 0
            ELSE ~gameStatus.game_started =>
                   /\ x.finish_position = 0
                   /\ x.action = (IF isCheckedIn THEN "check_out" ELSE "check_in") ]_vars

\* C2: when a status fetch of the mounted game room succeeds, gameStatus is
\* exactly the snapshot received: nothing of the snapshot held before is kept.
C2_LastSnapshotWins ==
  (last.op = "status" /\ last.outcome = "ok" /\ last.live) => gameStatus = last.data

C2_Witness ==
  /\ last.op = "status" /\ last.outcome = "ok" /\ last.live
  /\ gameStatus.checked_in_players = 1 /\ gameStatus.game_started
  /\ \E m \in Pending(net) : m.kind = "status"

\* C3: a failed status fetch (transport error or non-ok response) keeps
\* gameStatus and checkedInUsers and clears the loading flag, the first fetch
\* after entering the game room included.
C3_FailedFetchSwallowed ==
  [][ (last'.op = "status" /\ last'.outcome # "ok" /\ last'.live) =>
        /\ gameStatus' = gameStatus
        /\ checkedInUsers' = checkedInUsers
        /\ loading' = FALSE ]_vars

\* C8: a non-ok response to GET /api/auth/me forces a logout: the stored token
\* is removed, token and user are null, the auth loading flag is cleared and
\* the auth form is the top-level view.
C8_AuthFailureForcesLogout ==
  (last.op = "me" /\ last.outcome = "rejected") =>
     /\ storedToken = NoToken /\ token = NoToken /\ user = NoUser
     /\ ~authLoading /\ AuthFormMounted /\ ~DashMounted

C8_Witness == last.op = "me" /\ last.outcome = "rejected" /\ AuthFormMounted

\* the session, the league lists and the game view state
ClientState == << user, token, storedToken, myLeagues, allLeagues,
                  gameStatus, checkedInUsers >>

\* C9: a fetch that throws leaves the session, the league lists and the game
\* view state as they were, the current-user fetch included.
C9_TransportFailureKeepsState ==
  [][ last'.outcome = "threw" => ClientState' = ClientState ]_vars

\* What App.js does on a fetch that throws: the session, the league lists and
\* the game view state stay as they were for every fetch but the current-user
\* fetch, whose catch (43-46) logs out like its non-ok branch does.
TransportFailureKeepsStateExceptMe ==
  [][ last'.outcome = "threw" =>
        IF last'.op = "me"
          THEN /\ user' = NoUser /\ token' = NoToken /\ storedToken' = NoToken
               /\ AuthFormMounted'
          ELSE ClientState' = ClientState ]_vars

\* C10: every non-ok response to a user-initiated call (login, register, join,
\* create, check-in/out, start, reset) whose component is still mounted is
\* shown to the user, in an alert or as the form's inline error.
C10_RejectionSurfaced ==
  [][ (last'.outcome = "rejected" /\ last'.op \in UserKinds /\ last'.live) =>
        (alertShown' = Detail \/ formError' = Detail) ]_vars

\* the seat nodes the layout shows for slot (t, n) that hold a player
Occupants(t, n) ==
  { << i, k >> \in (DOMAIN layout.tables) \X (1..NumSeats) :
      /\ layout.tables[i].table_number = t
      /\ layout.tables[i].seats[k].seat_number = n
      /\ layout.tables[i].seats[k].occupied }

\* C4: whatever the seat-assignment list, several assignments for one seat
\* included, the layout shows each table number at most once and each
\* (table_number, seat_number) slot holds at most one occupant.
C4_OneOccupantPerSlot ==
  layout.rendered =>
    /\ \A i, j \in DOMAIN layout.tables :
         layout.tables[i].table_number = layout.tables[j].table_number => i = j
    /\ \A t \in 1..MaxTable, n \in 1..NumSeats : Cardinality(Occupants(t, n)) <= 1

C4_Witness ==
  /\ layout.rendered
  /\ \E i, j \in DOMAIN assignments :
       /\ i < j
       /\ assignments[i].table_number = assignments[j].table_number
       /\ assignments[i].seat_number = assignments[j].seat_number
       /\ assignments[i].user_id # assignments[j].user_id

\* the places in the list of the assignments for slot (t, n)
Claimants(t, n) ==
  { i \in DOMAIN assignments :
      assignments[i].table_number = t /\ assignments[i].seat_number = n }

\* C5: every table number of the seat assignments is rendered with exactly the
\* 9 slots 1..9; slot (t, n) is occupied if and only if some assignment has
\* table t and seat n, by the first such assignment of the list; a table number
\* of no assignment is not rendered.
C5_LayoutDerivation ==
  layout.rendered =>
    /\ { layout.tables[i].table_number : i \in DOMAIN layout.tables }
         = { assignments[i].table_number : i \in DOMAIN assignments }
    /\ \A i \in DOMAIN layout.tables :
         LET table == layout.tables[i] IN
         /\ Len(table.seats) = 9
         /\ \A n \in 1..9 :
              /\ table.seats[n].seat_number = n
              /\ table.seats[n].occupied <=> Claimants(table.table_number, n) # {}
              /\ table.seats[n].occupied =>
                   table.seats[n].player
                     = assignments[Min(Claimants(table.table_number, n))]

C5_Witness ==
  /\ layout.rendered /\ Len(layout.tables) = 2
  /\ \E i \in DOMAIN layout.tables, n \in 1..9 :
       /\ Cardinality(Claimants(layout.tables[i].table_number, n)) = 1
       /\ ~layout.tables[i].seats[NumSeats].occupied

\* the positions claimed by the live eliminations of the snapshot
Taken(snap) ==
  { snap.live_eliminations[i].finish_position : i \in DOMAIN snap.live_eliminations }

\* C6: the open picker offers exactly the positions of 1..total_initial_players
\* that no live elimination of the held snapshot has claimed, none of them a
\* claimed one, and a check_out that carries a finish_position carries one of
\* those positions.
C6_PickerOffersFreePositions ==
  /\ pickerOffered.open =>
       /\ Range(pickerOffered.options)
            = (1..pickerSnap.total_initial_players) \ Taken(pickerSnap)
       /\ Range(pickerOffered.options) \cap Taken(pickerSnap) = {}
  /\ pickerSent # 0 =>
       /\ pickerSent \in 1..pickerSnap.total_initial_players
       /\ pickerSent \notin Taken(pickerSnap)

C6_Witness ==
  /\ pickerSent # 0
  /\ Taken(pickerSnap) \cap (1..pickerSnap.total_initial_players) # {}
  /\ Cardinality(Taken(pickerSnap)) = 2

\* C7: from the seeded draft of N members, after any sequence of single-row
\* edits to positions in 1..N, the finish positions of the draft are exactly
\* 1..N, none twice, and the draft is sorted by finish_position.
C7_DraftIsPermutation ==
  /\ { draft[k].finish_position : k \in DOMAIN draft } = 1..Len(draft)
  /\ \A j, k \in DOMAIN draft :
       j < k => draft[j].finish_position < draft[k].finish_position

C7_Witness ==
  /\ Len(draft) = MaxMembers
  /\ draft[1].user_id = MaxMembers
  /\ draft[2].user_id = 3
  /\ draft[MaxMembers].user_id = 1

\* C11: after every session operation the token in localStorage equals the
\* in-memory token: a successful login or register leaves the issued
\* access_token in both, a logout leaves both absent, a failed login or
\* register changes neither, and a reload starts from the stored token.
C11_TokenPersisted ==
  [][ /\ token' = storedToken'
      /\ (last'.op \in FormKinds /\ last'.outcome = "ok") =>
           token' = last'.data.access_token
      /\ (last'.op \in FormKinds /\ last'.outcome # "ok") =>
           token' = token /\ storedToken' = storedToken
      /\ last' = LogoutStep => token' = NoToken
      /\ last' = InitStep => token' = storedToken ]_vars

C11_Witness ==
  /\ last.op = "login" /\ last.outcome = "ok"
  /\ token = 2 /\ storedToken = 2 /\ last.data.access_token = 2

\* the ids of a list of leagues
Ids(ls) == { ls[i].id : i \in DOMAIN ls }

\* C12: after any completion of fetchLeagues, overlapping refreshes included,
\* no league id is in both myLeagues and the joinable list, and the joinable
\* list is the server's full list minus the leagues of myLeagues of the same
\* fetch; when the responses are not both ok, both lists keep their values.
C12_LeaguePartition ==
  [][ (last'.op = "leagues" /\ last'.live) =>
        IF last'.outcome = "ok"
          THEN /\ myLeagues' = last'.data.my
               /\ Ids(allLeagues') = Ids(last'.data.all) \ Ids(last'.data.my)
               /\ Len(allLeagues') = Cardinality(Ids(allLeagues'))
               /\ Ids(myLeagues') \cap Ids(allLeagues') = {}
          ELSE myLeagues' = myLeagues /\ allLeagues' = allLeagues ]_vars

C12_Witness ==
  /\ last.op = "leagues" /\ last.outcome = "ok" /\ last.live
  /\ Ids(last.data.my) = {1} /\ Ids(last.data.all) = {1}
  /\ myLeagues # << >> /\ allLeagues = << >>
  /\ \E m \in Pending(net) : m.kind = "leagues"

\* C13: while the auth loading flag is set only the loading screen is
\* rendered; otherwise the Dashboard is rendered exactly when user is non-null
\* and the auth form exactly when it is null; the Dashboard, and the game room
\* under it, is never rendered with a null user.
C13_SessionGating ==
  /\ authLoading =>
       /\ AppView(authLoading, user) = "loading"
       /\ ~DashMounted /\ ~AuthFormMounted /\ ~GameMounted
  /\ ~authLoading =>
       /\ DashMounted <=> user # NoUser
       /\ AuthFormMounted <=> user = NoUser
  /\ user = NoUser =>
       /\ ~DashMounted /\ ~GameMounted
       /\ selectedLeague = NoLeague /\ ~intervalOn /\ ~showCreateForm

C13_Witness ==
  /\ last = LogoutStep /\ user = NoUser /\ AuthFormMounted
  /\ \E m \in Pending(net) : m.kind = "me"

\* C14: the game room shows the empty-state table area if and only if the
\* held snapshot has checked_in_players equal to 0; then no table is rendered,
\* and in every other state the table grid of the seat assignments is rendered.
C14_EmptyState ==
  GameView =>
    LET area == TablesArea(gameStatus)
        holdsNone == gameStatus # NullStatus /\ gameStatus.checked_in_players = 0
    IN /\ area.empty_state <=> holdsNone
       /\ area.empty_state => Len(area.tables) = 0
       /\ (~area.empty_state /\ gameStatus # NullStatus) =>
            /\ { area.tables[i].table_number : i \in DOMAIN area.tables }
                 = { gameStatus.seat_assignments[i].table_number :
                       i \in DOMAIN gameStatus.seat_assignments }
            /\ \A i \in DOMAIN area.tables : Len(area.tables[i].seats) = NumSeats
            /\ gameStatus.checked_in_players > 0
       /\ gameStatus = NullStatus => area.tables = << >>

C14_Witness ==
  /\ GameView /\ gameStatus # NullStatus /\ gameStatus.checked_in_players = 0
  /\ TablesArea(gameStatus).empty_state
  /\ last.op = "status" /\ last.outcome = "ok" /\ last.live

\* C15: from the first successful poll on, checkedInUsers is the set of the
\* user_id values of the seat assignments of the held gameStatus, under every
\* interleaving of poll responses (and it is empty while no snapshot is held).
C15_CheckedInMatchesSnapshot ==
  GameMounted =>
    IF gameStatus = NullStatus THEN checkedInUsers = {}
    ELSE checkedInUsers = { gameStatus.seat_assignments[i].user_id :
                              i \in DOMAIN gameStatus.seat_assignments }

C15_Witness ==
  /\ GameMounted /\ gameStatus # NullStatus
  /\ checkedInUsers = {2} /\ Len(gameStatus.seat_assignments) = 1
  /\ last.op = "status" /\ last.outcome = "threw"
  /\ \E m \in Pending(net) : m.kind = "status"

\* the pending fetches of one of the kinds
CountOf(n, kinds) == SumOver(n, { m \in Pending(n) : m.kind \in kinds })

\* C16: handleCheckIn, startGame and resetGame never modify gameStatus or
\* checkedInUsers, whether their call succeeds, is rejected or throws; in a
\* mounted game room the two change only when a status response is processed
\* successfully; a successful mutating call only issues one status fetch.
C16_NoOptimisticMutation ==
  [][ /\ (GameMounted /\ GameMounted' /\ selectedLeague' = selectedLeague
            /\ (gameStatus' # gameStatus \/ checkedInUsers' # checkedInUsers))
          => (last'.op = "status" /\ last'.outcome = "ok" /\ last'.live)
      /\ last'.op \in MutatingKinds =>
           /\ gameStatus' = gameStatus /\ checkedInUsers' = checkedInUsers
           /\ loading' = loading /\ alertShown' = alertShown
           /\ CountOf(net', MutatingKinds) = CountOf(net, MutatingKinds) - 1
           /\ CountOf(net', {"status"}) =
                CountOf(net, {"status"}) + (IF last'.outcome = "ok" THEN 1 ELSE 0) ]_vars

C16_Witness ==
  /\ last.op = "checkin" /\ last.outcome = "ok"
  /\ gameStatus # NullStatus /\ ~isCheckedIn
  /\ CountOf(net, {"status"}) = 1

\* the game room shows the state the backend holds
InSync == /\ gameStatus = ServerSnapshot(server)
          /\ checkedInUsers = server.checked_in
          /\ ~loading

\* C17: while the game room stays mounted, once the backend's game state has
\* stopped changing and status fetches are answered successfully, the view
\* state eventually equals the backend's state and stays equal from then on.
C17_EventuallyConsistent == [](server.quiet => <>[]InSync)

C17_Witness ==
  /\ server.quiet /\ InSync /\ server.checked_in = {SyncUser} /\ server.started
  /\ isCheckedIn
  /\ last.op = "status" /\ last.outcome = "ok"
  /\ \E m \in Pending(net) : m.answer # Unanswered /\ m.answer # Ok(ServerSnapshot(server))

\* C18: a status fetch is issued when the game room mounts and on every tick
\* of the interval while it is mounted, whatever failed before and whatever is
\* still in flight; the interval is cleared on teardown and by nothing else,
\* and after teardown no interval-driven status fetch is issued.
C18_PollingLifecycle ==
  /\ [](GameMounted <=> intervalOn)
  /\ []((GameMounted /\ Idle /\ CanSend) => ENABLED InApp(Tick))
  /\ [][ /\ (~GameMounted /\ GameMounted') =>
              CountOf(net', {"status"}) = CountOf(net, {"status"}) + 1
         /\ (intervalOn /\ ~intervalOn') => (GameMounted /\ ~GameMounted')
         /\ (~GameMounted /\ ~GameMounted') =>
              CountOf(net', {"status"}) <= CountOf(net, {"status"})
         /\ InApp(Tick) =>
              /\ CountOf(net', {"status"}) = CountOf(net, {"status"}) + 1
              /\ InFlight(net') = InFlight(net) + 1 ]_vars

C18_Witness ==
  /\ GameMounted /\ intervalOn /\ last = UserStep
  /\ gameStatus = NullStatus /\ ~loading
  /\ CountOf(net, {"status"}) = 2

\* C19: requests are not de-duplicated: the toggle can be pressed again while
\* a checkin request is pending, every press puts one more checkin request in
\* flight, and a press leaves the held snapshot alone, so two presses in a row
\* carry the same action.
C19_NoDeduplication ==
  /\ []((GameView /\ Idle /\ CanSend) => ENABLED InApp(PressToggle))
  /\ [][ InApp(PressToggle) =>
           /\ CountOf(net', {"checkin"}) = CountOf(net, {"checkin"}) + 1
           /\ \A x \in Pending(net') : SentCheckin(x) => x.action = ToggleAction
           /\ ToggleAction' = ToggleAction
           /\ GameView' ]_vars

C19_Witness ==
  /\ GameView /\ last = UserStep
  /\ \E x \in Pending(net) :
       x.kind = "checkin" /\ x.action = "check_out" /\ CopiesIn(x, net) = 2

\* C20: in every reachable state of the session holder a non-null user comes
\* with a non-null in-memory token and a token in localStorage, under every
\* interleaving of login, register, logout and the responses of current-user
\* fetches in flight; so no authenticated request carries a null token.
C20_UserImpliesToken ==
  /\ user # NoUser => (token # NoToken /\ storedToken # NoToken)
  /\ \A m \in Pending(net) : m.kind \notin FormKinds => m.token # NoToken

\* where in the backend's order of game states a snapshot was produced
ProducedAt(s) ==
  CHOOSE i \in 1..Len(server.produced) : server.produced[i] = s

\* C21: with several status fetches in flight at once, snapshots are never
\* applied to the game room out of the backend's order: once the view holds a
\* snapshot, no step replaces it with a snapshot the backend produced earlier.
C21_SnapshotOrder ==
  [][ (gameStatus # NullStatus /\ gameStatus' # gameStatus) =>
        ProducedAt(gameStatus') > ProducedAt(gameStatus) ]_vars

\* C22: a start request is issued only by the user whose id is the league's
\* admin_id, and only while the held snapshot is non-null and counts at least
\* two checked-in players; the guard does not look at game_started, so the
\* admin can also send a start request for a game the snapshot shows as
\* started.
C22_StartGuard ==
  /\ [][ CountOf(net', {"start"}) > CountOf(net, {"start"}) =>
           /\ selectedLeague # NoLeague /\ selectedLeague.admin_id = user
           /\ gameStatus # NullStatus
           /\ gameStatus.checked_in_players >= 2 ]_vars
  /\ []((/\ GameView /\ Idle /\ CanSend
         /\ selectedLeague.admin_id = user
         /\ gameStatus # NullStatus
         /\ gameStatus.checked_in_players >= 2)
          => ENABLED InApp(PressStart))

C22_Witness ==
  /\ GameView /\ last = UserStep
  /\ InFlight(net) = 1
  /\ \E x \in Pending(net) : x.kind = "start" /\ x.token = selectedLeague.admin_id
  /\ gameStatus # NullStatus /\ gameStatus.game_started
  /\ gameStatus.checked_in_players = 2

====
